---- MODULE Spec2Model ----
(***************************************************************************)
(* ByteTheNet: a speed-test client and server.  The server broadcasts      *)
(* Offers, streams bytes over TCP and bursts numbered Payload datagrams    *)
(* over UDP; the client listens for Offers and, for each one, runs         *)
(* num_tcp_conns TCP downloads and num_udp_conns UDP downloads.            *)
(*                                                                         *)
(* Bytes are integers 0..255.  A datagram is a record                      *)
(*   [hdr |-> <<byte, ...>>, plen |-> n]                                   *)
(* standing for the bytes of hdr followed by n filler bytes 'a'.           *)
(* A 32-bit field is kept as its four big-endian bytes, a 64-bit or 16-bit *)
(* field is decoded to an integer.                                         *)
(***************************************************************************)
EXTENDS Integers, Sequences, FiniteSets, Bags, TLC

\* ------------------------------------------------------------------ bounds
\* Largest number of TCP (and of UDP) sessions a test may be asked to spawn.
MaxConns == 2
\* Number of datagrams the environment delivers to the client's offer socket.
MaxOffers == 2
\* Largest requested file size of the single-session TCP specification.
MaxTcpFileSize == 8193
\* Largest requested file size of the single-session UDP specifications.
MaxUdpFileSize == 4097
\* Largest reading of the wall clock.
MaxClock == 1
\* Number of times a stranger at the other end of a TCP connection delivers bytes.
MaxPeerSends == 2
\* Number of datagrams the network duplicates.
MaxExtra == 2
\* Number of session threads one speed test of the whole client starts.
MaxThreads == 3
\* Number of datagrams other programs send to a socket of the client or the server.
MaxStray == 3
\* Number of datagrams that reach the sockets of two UDP sessions run side by side.
MaxArrivals == 4
\* The count of the broadcaster's send attempts since its last sleep stops here.
MaxBroadcasts == 2

\* ------------------------------------------------------- program constants
MAGIC_COOKIE == <<171, 205, 220, 186>>      \* 0xabcddcba, big-endian
MSG_TYPE_OFFER == 2
MSG_TYPE_REQUEST == 3
MSG_TYPE_PAYLOAD == 4
segment_size == 1024
chunk_size == 4096
TcpRecvBufSize == 4096
TcpRequestBufSize == 1024
\* The clock counts nanoseconds: 0.000001 s (TCP client) and 1e-9 s (UDP client).
TcpEpsilon == 1000
UdpEpsilon == 1

\* ------------------------------------------------------------- wire codec
\* What a failed pack() stands for (struct.error): a datagram that is none.
NoDatagram == [ok |-> FALSE, hdr |-> <<>>, plen |-> 0]

Min(a, b) == IF a < b THEN a ELSE b
Max(a, b) == IF a > b THEN a ELSE b

RECURSIVE SumSeq(_)
SumSeq(s) == IF s = <<>> THEN 0 ELSE Head(s) + SumSeq(Tail(s))

\* struct's range check of an unsigned field of w bytes.  Every integer of
\* the model is below 2^31, so a field of four bytes or more only rejects
\* negative values here.
FitsUnsigned(v, w) == v >= 0 /\ (w >= 4 \/ v < 256 ^ w)

\* The w big-endian bytes of v.
RECURSIVE BigEndian(_, _)
BigEndian(v, w) ==
    IF w = 0 THEN <<>> ELSE Append(BigEndian(v \div 256, w - 1), v % 256)

\* The integer a big-endian byte string stands for.
RECURSIVE FromBigEndian(_)
FromBigEndian(b) ==
    IF b = <<>> THEN 0
    ELSE FromBigEndian(SubSeq(b, 1, Len(b) - 1)) * 256 + b[Len(b)]

FILLER == 97      \* ord('a')

DataLen(d) == Len(d.hdr) + d.plen
DataByte(d, i) == IF i <= Len(d.hdr) THEN d.hdr[i] ELSE FILLER
DataSlice(d, from, to) == [i \in 1..(to - from + 1) |-> DataByte(d, from + i - 1)]

OFFER_SIZE == 9        \* struct.calcsize('!IBHH')
REQUEST_SIZE == 13     \* struct.calcsize('!IBQ')
PAYLOAD_HEADER_SIZE == 21   \* struct.calcsize('!IBQQ')

pack_offer_message(udp_port, tcp_port) ==
    IF FitsUnsigned(udp_port, 2) /\ FitsUnsigned(tcp_port, 2)
    THEN [ok |-> TRUE,
          hdr |-> MAGIC_COOKIE \o <<MSG_TYPE_OFFER>>
                   \o BigEndian(udp_port, 2) \o BigEndian(tcp_port, 2),
          plen |-> 0]
    ELSE NoDatagram

unpack_offer_message(d) ==
    IF DataLen(d) # OFFER_SIZE
    THEN [ok |-> FALSE, magic_cookie |-> <<>>, msg_type |-> 0, udp_port |-> 0, tcp_port |-> 0]
    ELSE [ok |-> TRUE, magic_cookie |-> DataSlice(d, 1, 4),
          msg_type |-> DataByte(d, 5),
          udp_port |-> FromBigEndian(DataSlice(d, 6, 7)),
          tcp_port |-> FromBigEndian(DataSlice(d, 8, 9))]

pack_request_message(file_size) ==
    IF FitsUnsigned(file_size, 8)
    THEN [ok |-> TRUE,
          hdr |-> MAGIC_COOKIE \o <<MSG_TYPE_REQUEST>> \o BigEndian(file_size, 8),
          plen |-> 0]
    ELSE NoDatagram

unpack_request_message(d) ==
    IF DataLen(d) # REQUEST_SIZE
    THEN [ok |-> FALSE, magic_cookie |-> <<>>, msg_type |-> 0, file_size |-> 0]
    ELSE [ok |-> TRUE, magic_cookie |-> DataSlice(d, 1, 4),
          msg_type |-> DataByte(d, 5),
          file_size |-> FromBigEndian(DataSlice(d, 6, 13))]

\* payload is a run of payload_len filler bytes
pack_payload_message(total, current_segment, payload_len) ==
    IF FitsUnsigned(total, 8) /\ FitsUnsigned(current_segment, 8)
    THEN [ok |-> TRUE,
          hdr |-> MAGIC_COOKIE \o <<MSG_TYPE_PAYLOAD>>
                   \o BigEndian(total, 8) \o BigEndian(current_segment, 8),
          plen |-> payload_len]
    ELSE NoDatagram

unpack_payload_message(d) ==
    IF DataLen(d) < PAYLOAD_HEADER_SIZE
    THEN [ok |-> FALSE, magic_cookie |-> <<>>, msg_type |-> 0, total_segments |-> 0,
          current_segment |-> 0, payload_len |-> 0]
    ELSE [ok |-> TRUE, magic_cookie |-> DataSlice(d, 1, 4),
          msg_type |-> DataByte(d, 5),
          total_segments |-> FromBigEndian(DataSlice(d, 6, 13)),
          current_segment |-> FromBigEndian(DataSlice(d, 14, 21)),
          payload_len |-> DataLen(d) - PAYLOAD_HEADER_SIZE]

\* ----------------------------------------- the TCP control line (text)
NEWLINE == 10
MINUS == 45
PLUS == 43
UNDERSCORE == 95
ZERO == 48

\* str(n) for n >= 0, as ASCII bytes
RECURSIVE DecimalDigits(_)
DecimalDigits(n) ==
    IF n < 10 THEN <<ZERO + n>>
    ELSE Append(DecimalDigits(n \div 10), ZERO + (n % 10))

\* f"{n}\n".encode()
FormatRequestLine(n) ==
    (IF n < 0 THEN <<MINUS>> \o DecimalDigits(0 - n) ELSE DecimalDigits(n))
        \o <<NEWLINE>>

IsSpace(b) == b \in {9, 10, 11, 12, 13, 32}
IsDigit(b) == b \in ZERO..(ZERO + 9)

\* bytes.strip()
RECURSIVE Strip(_)
Strip(s) ==
    IF s = <<>> THEN s
    ELSE IF IsSpace(Head(s)) THEN Strip(Tail(s))
    ELSE IF IsSpace(s[Len(s)]) THEN Strip(SubSeq(s, 1, Len(s) - 1))
    ELSE s

\* A run of digits with single underscores between them, as int() accepts it
RECURSIVE IsDigitRun(_)
IsDigitRun(s) ==
    IF s = <<>> THEN FALSE
    ELSE IF ~IsDigit(Head(s)) THEN FALSE
    ELSE IF Len(s) = 1 THEN TRUE
    ELSE IF s[2] = UNDERSCORE THEN IsDigitRun(Tail(Tail(s)))
    ELSE IsDigitRun(Tail(s))

RECURSIVE DigitsValue(_, _)
DigitsValue(s, acc) ==
    IF s = <<>> THEN acc
    ELSE IF IsDigit(Head(s)) THEN DigitsValue(Tail(s), acc * 10 + (Head(s) - ZERO))
    ELSE DigitsValue(Tail(s), acc)

\* int(data.strip().decode()); ok = FALSE stands for ValueError / UnicodeDecodeError
ParseRequestLine(data) ==
    LET s == Strip(data)
        signed == s # <<>> /\ Head(s) \in {MINUS, PLUS}
        body == IF signed THEN Tail(s) ELSE s
    IN  IF (\E j \in 1..Len(data) : data[j] >= 128) \/ ~IsDigitRun(body)
        THEN [ok |-> FALSE, value |-> 0]
        ELSE [ok |-> TRUE,
              value |-> IF signed /\ Head(s) = MINUS
                        THEN 0 - DigitsValue(body, 0) ELSE DigitsValue(body, 0)]

EndsWithNewline(data) == data # <<>> /\ data[Len(data)] = NEWLINE

\* ------------------------------------------------------------------ state
SERVER_IP == "server"
STRANGER_IP == "stranger"
\* The ephemeral ports the server's sockets were bound to.
SERVER_TCP_PORT == 5001
SERVER_UDP_PORT == 5002
\* A port of the stranger's choosing.
STRANGER_PORT == SERVER_TCP_PORT + 1

ConnIds == 1..MaxConns
\* A TCP connection is named by the test and the connection id of the client
\* session that opened it; test 0 names connections opened by other programs.
MaxForeign == 1
ConnKeys == ({0} \X (1..MaxForeign)) \cup ((1..MaxOffers) \X ConnIds)

VARIABLES
    requested_file_size,    \* client: self.requested_file_size
    num_tcp_conns,          \* client: self.num_tcp_conns
    num_udp_conns,          \* client: self.num_udp_conns
    now,                    \* the wall clock, time.time(), in nanoseconds
    tcp,                    \* client: the _tcp_download thread of each connection id
    conn,                   \* the TCP connections
    backlog,                \* server: connections waiting in the listening socket
    tcp_listen,             \* server: where _tcp_listen is
    srv_running,            \* server: self.running
    handler,                \* server: the _handle_tcp_client thread of each connection
    foreign,                \* what each foreign TCP client still has to send
    peer_left,              \* deliveries a stranger may still make
    udp,                    \* client: the _udp_download thread of each connection id
    udp_sock,               \* the datagrams waiting at each client session's UDP socket
    srv_udp_sock,           \* server: the datagrams waiting at its UDP socket
    udp_listen,             \* server: where _udp_listen is
    udp_handlers,           \* server: the _handle_udp_client threads, in order of start
    extra_left,             \* datagrams the network may still duplicate
    running,                \* client: self.running
    offer_sock,             \* client: the datagrams waiting at the offer socket
    offers_left,            \* datagrams that may still arrive at the offer socket
    listener,               \* client: where _listen_for_offers / _start_speed_test is
    bcast,                  \* server: the _broadcast_offers thread
    stray_left              \* datagrams other programs may still send

cfgVars == <<requested_file_size, num_tcp_conns, num_udp_conns>>
tcpVars == <<tcp, conn, backlog, tcp_listen, srv_running, handler, foreign, peer_left>>
udpVars == <<udp, udp_sock, srv_udp_sock, udp_listen, udp_handlers, extra_left>>
lstVars == <<running, offer_sock, offers_left, listener>>
vars == <<cfgVars, now, tcpVars, udpVars, lstVars, bcast, stray_left>>

NoReport == [kind |-> "none", bytes |-> 0, elapsed |-> 0, bits |-> 0]
ErrorReport == [kind |-> "error", bytes |-> 0, elapsed |-> 0, bits |-> 0]

NoTcpSession ==
    [pc |-> "none", server_ip |-> SERVER_IP, server_tcp_port |-> 0, key |-> <<0, 0>>,
     start_time |-> 0, total_received |-> 0, recv_calls |-> 0, report |-> NoReport]

\* threading.Thread(target=self._tcp_download, args=(server_ip, server_tcp_port, i + 1))
NewTcpSession(ip, port, test, id) ==
    [NoTcpSession EXCEPT !.pc = "connect", !.server_ip = ip,
                         !.server_tcp_port = port, !.key = <<test, id>>]

NoConn ==
    [st |-> "none", peer |-> "none", c2s |-> <<>>, s2c |-> 0, delivered |-> 0,
     cclosed |-> FALSE, sclosed |-> FALSE, reset |-> FALSE]

NoHandler ==
    [pc |-> "none", data |-> <<>>, requested_size |-> 0, bytes_sent |-> 0,
     chunks |-> <<>>, out |-> "none"]

\* ------------------------------------------------------------- the clock
Tick ==
    /\ now < MaxClock
    /\ now' = now + 1
    /\ UNCHANGED <<cfgVars, bcast, stray_left, lstVars, udpVars, tcpVars>>

\* time.time() is the wall clock: it may be set back while a session runs.
ClockSetBack ==
    /\ now > 0
    /\ now' = now - 1
    /\ UNCHANGED <<cfgVars, bcast, stray_left, lstVars, udpVars, tcpVars>>

\* ------------------------------------------------- client: _tcp_download
\* elapsed = time.time() - start_time; if elapsed <= 0: elapsed = 0.000001
TcpElapsedNoGuard(elapsed) == elapsed
TcpElapsed(elapsed) == IF elapsed <= 0 THEN TcpEpsilon ELSE elapsed

\* Steps 4 and 5: the statistics and the log line; a division by zero raises
\* and is logged by the except clause instead.
TcpReport(s, total) ==
    LET elapsed == TcpElapsed(now - s.start_time)
    IN  IF elapsed = 0 THEN ErrorReport
        ELSE [kind |-> "finished", bytes |-> total, elapsed |-> elapsed,
              bits |-> 8 * total]

\* Leaving the "with" block closes the socket; unread data makes the close a reset.
ClientClose(c) == [c EXCEPT !.cclosed = TRUE]

\* start_time = time.time(); connect((server_ip, server_tcp_port)) succeeds
TcpConnect(i) ==
    LET s == tcp[i] IN
    /\ s.pc = "connect"
    /\ conn[s.key].st = "none"
    /\ tcp' = [tcp EXCEPT ![i].pc = "send", ![i].start_time = now]
    /\ IF s.server_ip = SERVER_IP /\ s.server_tcp_port = SERVER_TCP_PORT
       THEN /\ conn' = [conn EXCEPT ![s.key] = [NoConn EXCEPT !.st = "backlog", !.peer = "server"]]
            /\ backlog' = Append(backlog, s.key)
       ELSE /\ conn' = [conn EXCEPT ![s.key] = [NoConn EXCEPT !.st = "est", !.peer = "stranger"]]
            /\ UNCHANGED backlog
    /\ UNCHANGED <<cfgVars, bcast, stray_left, lstVars, udpVars, now, tcp_listen, srv_running, handler, foreign, peer_left>>

\* connect() raises (refused, unreachable, timed out): the except clause logs it
TcpConnectFails(i) ==
    LET s == tcp[i] IN
    /\ s.pc = "connect"
    /\ tcp' = [tcp EXCEPT ![i].pc = "done", ![i].start_time = now, ![i].report = ErrorReport]
    /\ UNCHANGED <<cfgVars, bcast, stray_left, lstVars, udpVars, now, conn, backlog, tcp_listen, srv_running, handler, foreign, peer_left>>

\* sendall(f"{self.requested_file_size}\n".encode()), then total_received = 0 and
\* the first test of the while loop
TcpSendRequest(i) ==
    LET s == tcp[i]
        c == conn[s.key]
    IN
    /\ s.pc = "send"
    /\ IF c.reset
       THEN /\ tcp' = [tcp EXCEPT ![i].pc = "done", ![i].report = ErrorReport]
            /\ conn' = [conn EXCEPT ![s.key] = ClientClose(c)]
       ELSE LET sent == [c EXCEPT !.c2s = c.c2s \o FormatRequestLine(requested_file_size)]
            IN  IF 0 < requested_file_size
                THEN /\ tcp' = [tcp EXCEPT ![i].pc = "recv", ![i].total_received = 0]
                     /\ conn' = [conn EXCEPT ![s.key] = sent]
                ELSE /\ tcp' = [tcp EXCEPT ![i].pc = "done", ![i].total_received = 0,
                                           ![i].report = TcpReport(s, 0)]
                     /\ conn' = [conn EXCEPT ![s.key] = ClientClose(sent)]
    /\ UNCHANGED <<cfgVars, bcast, stray_left, lstVars, udpVars, now, backlog, tcp_listen, srv_running, handler, foreign, peer_left>>

\* What one recv(4096) may return when avail bytes are waiting: all it can take,
\* or a short read.
RecvLengths(avail) ==
    {n \in {1460, Min(TcpRecvBufSize, avail)} : 1 <= n /\ n <= avail}

\* The loop's bookkeeping after data of n bytes arrived: total_received += len(data),
\* then the test of the while condition.
TcpAfterData(i, n) ==
    LET s == tcp[i]
        total == s.total_received + n
        c == [conn[s.key] EXCEPT !.s2c = @ - n]
    IN  IF total < requested_file_size
        THEN /\ tcp' = [tcp EXCEPT ![i].total_received = total, ![i].recv_calls = @ + 1]
             /\ conn' = [conn EXCEPT ![s.key] = c]
        ELSE /\ tcp' = [tcp EXCEPT ![i].pc = "done", ![i].total_received = total,
                                   ![i].recv_calls = @ + 1, ![i].report = TcpReport(s, total)]
             /\ conn' = [conn EXCEPT ![s.key] = ClientClose(c)]

\* data = tcp_sock.recv(4096) returns bytes
TcpRecvData(i) ==
    LET s == tcp[i] IN
    /\ s.pc = "recv"
    /\ \E n \in RecvLengths(conn[s.key].s2c) : TcpAfterData(i, n)
    /\ UNCHANGED <<cfgVars, bcast, stray_left, lstVars, udpVars, now, backlog, tcp_listen, srv_running, handler, foreign, peer_left>>

\* (a client that took the end of the stream for a failure)
TcpRecvEofAsError(i) ==
    LET s == tcp[i]
        c == conn[s.key]
    IN
    /\ s.pc = "recv"
    /\ c.s2c = 0 /\ c.sclosed /\ ~c.reset
    /\ tcp' = [tcp EXCEPT ![i].pc = "done", ![i].recv_calls = @ + 1, ![i].report = ErrorReport]
    /\ conn' = [conn EXCEPT ![s.key] = ClientClose(c)]
    /\ UNCHANGED <<cfgVars, bcast, stray_left, lstVars, udpVars, now, backlog, tcp_listen, srv_running, handler, foreign, peer_left>>

\* (a client that leaves the loop on b"" only when it has all it asked for)
TcpRecvEofWhenComplete(i) ==
    LET s == tcp[i]
        c == conn[s.key]
    IN
    /\ s.pc = "recv"
    /\ c.s2c = 0 /\ c.sclosed /\ ~c.reset
    /\ s.total_received >= requested_file_size
    /\ tcp' = [tcp EXCEPT ![i].pc = "done", ![i].recv_calls = @ + 1,
                          ![i].report = TcpReport(s, s.total_received)]
    /\ conn' = [conn EXCEPT ![s.key] = ClientClose(c)]
    /\ UNCHANGED <<cfgVars, bcast, stray_left, lstVars, udpVars, now, backlog, tcp_listen, srv_running, handler, foreign, peer_left>>

\* recv returns b"" (the peer closed): break, then the statistics
TcpRecvEof(i) ==
    LET s == tcp[i]
        c == conn[s.key]
    IN
    /\ s.pc = "recv"
    /\ c.s2c = 0 /\ c.sclosed /\ ~c.reset
    /\ tcp' = [tcp EXCEPT ![i].pc = "done", ![i].recv_calls = @ + 1,
                          ![i].report = TcpReport(s, s.total_received)]
    /\ conn' = [conn EXCEPT ![s.key] = ClientClose(c)]
    /\ UNCHANGED <<cfgVars, bcast, stray_left, lstVars, udpVars, now, backlog, tcp_listen, srv_running, handler, foreign, peer_left>>

\* recv raises (connection reset): the except clause logs the error
TcpRecvFails(i) ==
    LET s == tcp[i]
        c == conn[s.key]
    IN
    /\ s.pc = "recv"
    /\ c.s2c = 0 /\ c.reset
    /\ tcp' = [tcp EXCEPT ![i].pc = "done", ![i].recv_calls = @ + 1, ![i].report = ErrorReport]
    /\ conn' = [conn EXCEPT ![s.key] = ClientClose(c)]
    /\ UNCHANGED <<cfgVars, bcast, stray_left, lstVars, udpVars, now, backlog, tcp_listen, srv_running, handler, foreign, peer_left>>

TcpSessionStep(i) ==
    \/ TcpConnect(i)
    \/ TcpConnectFails(i)
    \/ TcpSendRequest(i)
    \/ TcpRecvData(i)
    \/ TcpRecvEof(i)
    \/ TcpRecvFails(i)

\* ------------------------------------------- a stranger as the TCP peer
\* A server that is not this program: it may deliver any bytes, fewer or more
\* than were asked for, close, or reset the connection.
StrangerChunks == {1, chunk_size}

StrangerDeliver(k) ==
    LET c == conn[k] IN
    /\ c.peer = "stranger" /\ c.st = "est" /\ ~c.sclosed /\ ~c.cclosed
    /\ \E n \in StrangerChunks :
        /\ peer_left > 0
        /\ conn' = [conn EXCEPT ![k].s2c = @ + n, ![k].delivered = @ + n]
        /\ peer_left' = peer_left - 1
    /\ UNCHANGED <<cfgVars, bcast, stray_left, lstVars, udpVars, now, tcp, backlog, tcp_listen, srv_running, handler, foreign>>

StrangerClose(k) ==
    LET c == conn[k] IN
    /\ c.peer = "stranger" /\ c.st = "est" /\ ~c.sclosed /\ ~c.cclosed
    /\ conn' = [conn EXCEPT ![k].sclosed = TRUE]
    /\ UNCHANGED <<cfgVars, bcast, stray_left, lstVars, udpVars, now, tcp, backlog, tcp_listen, srv_running, handler, foreign, peer_left>>

StrangerReset(k) ==
    LET c == conn[k] IN
    /\ c.peer = "stranger" /\ c.st = "est" /\ ~c.sclosed /\ ~c.cclosed
    /\ conn' = [conn EXCEPT ![k].sclosed = TRUE, ![k].reset = TRUE, ![k].s2c = 0]
    /\ UNCHANGED <<cfgVars, bcast, stray_left, lstVars, udpVars, now, tcp, backlog, tcp_listen, srv_running, handler, foreign, peer_left>>

StrangerStep(k) == StrangerDeliver(k) \/ StrangerClose(k) \/ StrangerReset(k)

\* ------------------------------------------------------ the loops' test
\* The test of "while self.running": into the blocking call, or out of the loop.
\* The thread makes it on starting and again after each pass of the loop.
WhileRunning(flag, blocked) == IF flag THEN blocked ELSE "exited"

\* KeyboardInterrupt in start(): self.running = False
ServerInterrupt ==
    /\ srv_running
    /\ srv_running' = FALSE
    /\ UNCHANGED <<cfgVars, bcast, stray_left, lstVars, udpVars, now, tcp, conn, backlog,
                   tcp_listen, handler, foreign, peer_left>>

ClientInterrupt ==
    /\ running
    /\ running' = FALSE
    /\ UNCHANGED <<cfgVars, bcast, stray_left, now, tcpVars, udpVars, offer_sock, offers_left,
                   listener>>

\* ---------------------------------------------- server: _broadcast_offers
\* pc is "send" (in the try block, before sendto), "sleep" (in time.sleep) or
\* "exited"; last is the outcome of the latest send attempt, and since_sleep
\* counts the send attempts made since time.sleep last returned.
NewBroadcaster == [pc |-> "send", last |-> "none", since_sleep |-> 0]

\* getsockname, pack_offer_message, sendto; then into time.sleep
BroadcastSend ==
    /\ bcast.pc = "send"
    /\ bcast' = [bcast EXCEPT !.pc = "sleep", !.last = "sent",
                              !.since_sleep = Min(@ + 1, MaxBroadcasts)]
    /\ UNCHANGED <<cfgVars, stray_left, lstVars, tcpVars, udpVars, now>>

\* sendto raises: the except clause logs the error, time.sleep is passed over
\* and the loop's test comes next
BroadcastSendFails ==
    /\ bcast.pc = "send"
    /\ bcast' = [bcast EXCEPT !.pc = WhileRunning(srv_running, "send"), !.last = "failed",
                              !.since_sleep = Min(@ + 1, MaxBroadcasts)]
    /\ UNCHANGED <<cfgVars, stray_left, lstVars, tcpVars, udpVars, now>>

\* time.sleep(BROADCAST_INTERVAL) returns; the loop's test
BroadcastWake ==
    /\ bcast.pc = "sleep"
    /\ bcast' = [bcast EXCEPT !.pc = WhileRunning(srv_running, "send"), !.since_sleep = 0]
    /\ UNCHANGED <<cfgVars, stray_left, lstVars, tcpVars, udpVars, now>>

\* ------------------------------------------------- server: _tcp_listen

\* (an accept loop that serves a connection itself before it accepts the next)
TcpListenAcceptInline ==
    /\ tcp_listen = "accept"
    /\ backlog # <<>>
    /\ \A k \in ConnKeys : handler[k].pc \in {"none", "done"}
    /\ LET k == Head(backlog) IN
        /\ conn' = [conn EXCEPT ![k].st = "est"]
        /\ handler' = [handler EXCEPT ![k] = [NoHandler EXCEPT !.pc = "read"]]
    /\ backlog' = Tail(backlog)
    /\ tcp_listen' = WhileRunning(srv_running, "accept")
    /\ UNCHANGED <<cfgVars, bcast, stray_left, lstVars, udpVars, now, tcp, srv_running, foreign, peer_left>>

\* client_sock, addr = tcp_socket.accept(); Thread(target=self._handle_tcp_client).start()
TcpListenAccept ==
    /\ tcp_listen = "accept"
    /\ backlog # <<>>
    /\ LET k == Head(backlog) IN
        /\ conn' = [conn EXCEPT ![k].st = "est"]
        /\ handler' = [handler EXCEPT ![k] = [NoHandler EXCEPT !.pc = "read"]]
    /\ backlog' = Tail(backlog)
    /\ tcp_listen' = WhileRunning(srv_running, "accept")
    /\ UNCHANGED <<cfgVars, bcast, stray_left, lstVars, udpVars, now, tcp, srv_running, foreign, peer_left>>

\* ------------------------------------------ server: _handle_tcp_client
\* Leaving "with client_sock" closes the accepted socket.
ServerClose(c) == [c EXCEPT !.sclosed = TRUE]

\* to_send = min(chunk_size, requested_size - bytes_sent)
ToSendWholeChunk(requested, sent) == chunk_size
ToSend(requested, sent) == Min(chunk_size, requested - sent)

\* while bytes_sent < requested_size
MoreToSend(requested, sent) == sent < requested

\* The handler once the request line is complete: int(), then the first test of
\* the sending loop.  A line int() rejects raises into the except clause.
HandlerParsed(hd, data) ==
    LET p == ParseRequestLine(data)
    IN  IF ~p.ok
        THEN [hd EXCEPT !.data = data, !.pc = "done", !.out = "error"]
        ELSE IF MoreToSend(p.value, 0)
        THEN [hd EXCEPT !.data = data, !.requested_size = p.value, !.pc = "send"]
        ELSE [hd EXCEPT !.data = data, !.requested_size = p.value, !.pc = "done",
                        !.out = "completed"]

\* chunk = client_sock.recv(1024) returns bytes; data += chunk
HandlerRecv(k) ==
    LET hd == handler[k]
        c == conn[k]
    IN
    /\ hd.pc = "read"
    /\ c.c2s # <<>>
    /\ \E n \in {1, Min(TcpRequestBufSize, Len(c.c2s))} :
        LET data == hd.data \o SubSeq(c.c2s, 1, n)
            rest == [c EXCEPT !.c2s = SubSeq(c.c2s, n + 1, Len(c.c2s))]
            after == IF EndsWithNewline(data) THEN HandlerParsed(hd, data)
                     ELSE [hd EXCEPT !.data = data]
        IN  /\ handler' = [handler EXCEPT ![k] = after]
            /\ conn' = [conn EXCEPT ![k] = IF after.pc = "done" THEN ServerClose(rest) ELSE rest]
    /\ UNCHANGED <<cfgVars, bcast, stray_left, lstVars, udpVars, now, tcp, backlog, tcp_listen, srv_running, foreign, peer_left>>

\* recv returns b"" before the newline came: return
HandlerRecvEof(k) ==
    LET hd == handler[k]
        c == conn[k]
    IN
    /\ hd.pc = "read"
    /\ c.c2s = <<>> /\ c.cclosed
    /\ handler' = [handler EXCEPT ![k].pc = "done", ![k].out = "eof"]
    /\ conn' = [conn EXCEPT ![k] = ServerClose(c)]
    /\ UNCHANGED <<cfgVars, bcast, stray_left, lstVars, udpVars, now, tcp, backlog, tcp_listen, srv_running, foreign, peer_left>>

\* client_sock.sendall(b'a' * to_send); bytes_sent += to_send; the loop's test
HandlerSend(k) ==
    LET hd == handler[k]
        c == conn[k]
        to_send == ToSend(hd.requested_size, hd.bytes_sent)
        sent == hd.bytes_sent + to_send
        more == MoreToSend(hd.requested_size, sent)
    IN
    /\ hd.pc = "send"
    /\ handler' = [handler EXCEPT ![k].bytes_sent = sent,
                                  ![k].chunks = Append(@, to_send),
                                  ![k].pc = IF more THEN "send" ELSE "done",
                                  ![k].out = IF more THEN "none" ELSE "completed"]
    /\ conn' = [conn EXCEPT ![k] =
                    LET c1 == [c EXCEPT !.s2c = @ + to_send, !.delivered = @ + to_send]
                    IN  IF more THEN c1 ELSE ServerClose(c1)]
    /\ UNCHANGED <<cfgVars, bcast, stray_left, lstVars, udpVars, now, tcp, backlog, tcp_listen, srv_running, foreign, peer_left>>

\* sendall raises (the client is gone): the except clause logs it
HandlerSendFails(k) ==
    LET hd == handler[k]
        c == conn[k]
    IN
    /\ hd.pc = "send"
    /\ c.cclosed
    /\ handler' = [handler EXCEPT ![k].pc = "done", ![k].out = "error"]
    /\ conn' = [conn EXCEPT ![k] = ServerClose(c)]
    /\ UNCHANGED <<cfgVars, bcast, stray_left, lstVars, udpVars, now, tcp, backlog, tcp_listen, srv_running, foreign, peer_left>>

HandlerStep(k) ==
    \/ HandlerRecv(k)
    \/ HandlerRecvEof(k)
    \/ HandlerSend(k)
    \/ HandlerSendFails(k)

\* -------------------------------------- another program as a TCP client
\* "abc\n", "\n", "12" (no newline), "+5\n", "5_0\n", " 7\n", "1.5\n", 0xff "\n"
ForeignLines ==
    { <<97, 98, 99, 10>>, <<10>>, <<49, 50>>, <<43, 53, 10>>, <<53, 95, 48, 10>>,
      <<32, 55, 10>>, <<49, 46, 53, 10>>, <<255, 10>>,
      FormatRequestLine(0), FormatRequestLine(0 - 3),
      FormatRequestLine(chunk_size), FormatRequestLine(2 * chunk_size + 1) }

ForeignConnect(j) ==
    /\ conn[<<0, j>>].st = "none"
    /\ \E line \in ForeignLines : foreign' = [foreign EXCEPT ![j] = line]
    /\ conn' = [conn EXCEPT ![<<0, j>>] = [NoConn EXCEPT !.st = "backlog", !.peer = "server"]]
    /\ backlog' = Append(backlog, <<0, j>>)
    /\ UNCHANGED <<cfgVars, bcast, stray_left, lstVars, udpVars, now, tcp, tcp_listen, srv_running, handler, peer_left>>

ForeignSend(j) ==
    LET c == conn[<<0, j>>] IN
    /\ c.st # "none" /\ ~c.cclosed
    /\ foreign[j] # <<>>
    /\ \E n \in {1, Len(foreign[j])} :
        /\ conn' = [conn EXCEPT ![<<0, j>>].c2s = @ \o SubSeq(foreign[j], 1, n)]
        /\ foreign' = [foreign EXCEPT ![j] = SubSeq(@, n + 1, Len(@))]
    /\ UNCHANGED <<cfgVars, bcast, stray_left, lstVars, udpVars, now, tcp, backlog, tcp_listen, srv_running, handler, peer_left>>

ForeignClose(j) ==
    LET c == conn[<<0, j>>] IN
    /\ c.st # "none" /\ ~c.cclosed
    /\ conn' = [conn EXCEPT ![<<0, j>>].cclosed = TRUE]
    /\ UNCHANGED <<cfgVars, bcast, stray_left, lstVars, udpVars, now, tcp, backlog, tcp_listen, srv_running, handler, foreign, peer_left>>

ForeignStep(j) == ForeignConnect(j) \/ ForeignSend(j) \/ ForeignClose(j)

\* ------------------------------------------------- client: _udp_download
\* The address of a session's own UDP socket is named by its test and connection id.
UdpAddrs == (1..MaxOffers) \X ConnIds

NoUdpReport ==
    [kind |-> "none", bytes |-> 0, elapsed |-> 0, bits |-> 0,
     received |-> 0, expected |-> 0, loss_num |-> 0, loss_den |-> 1]

\* total_segments = None is latched = FALSE; seen is the bag of the datagrams
\* recvfrom has returned.
NoUdpSession ==
    [pc |-> "none", server_ip |-> SERVER_IP, server_udp_port |-> 0, addr |-> <<0, 0>>,
     start_time |-> 0, total_received_bytes |-> 0, received_segments |-> 0,
     latched |-> FALSE, total_segments |-> 0, seen |-> EmptyBag, report |-> NoUdpReport]

\* threading.Thread(target=self._udp_download, args=(server_ip, server_udp_port, i + 1))
NewUdpSession(ip, port, test, id) ==
    [NoUdpSession EXCEPT !.pc = "request", !.server_ip = ip,
                         !.server_udp_port = port, !.addr = <<test, id>>]

\* elapsed = time.time() - start_time; if elapsed == 0: elapsed = 1e-9
UdpElapsed(elapsed) == IF elapsed = 0 THEN UdpEpsilon ELSE elapsed

\* total_segments = total_segments if total_segments else received_segments:
\* the else branch is taken for None and for 0
FallbackTaken(s) == ~s.latched \/ s.total_segments = 0
ExpectedSegments(s) ==
    IF FallbackTaken(s) THEN s.received_segments ELSE s.total_segments

\* packet_loss_percent, as the fraction num / den:
\* 0.0 unless total_segments > 0, then 100.0 * (1 - received_segments / total_segments)
LossPercentUnguarded(received, expected) ==
    [num |-> 100 * (expected - received), den |-> expected]
LossPercentClamped(received, expected) ==
    IF expected > 0 THEN [num |-> Max(0, 100 * (expected - received)), den |-> expected]
    ELSE [num |-> 0, den |-> 1]
LossPercent(received, expected) ==
    IF expected > 0 THEN [num |-> 100 * (expected - received), den |-> expected]
    ELSE [num |-> 0, den |-> 1]

\* Steps 7 and 8: the statistics and the log line
UdpReport(s) ==
    LET elapsed == UdpElapsed(now - s.start_time)
        expected == ExpectedSegments(s)
        loss == LossPercent(s.received_segments, expected)
    IN  [kind |-> IF elapsed = 0 THEN "crashed" ELSE "finished",
         bytes |-> s.total_received_bytes, elapsed |-> elapsed,
         bits |-> 8 * s.total_received_bytes,
         received |-> s.received_segments, expected |-> expected,
         loss_num |-> loss.num, loss_den |-> loss.den]

\* start_time = time.time(); the socket; pack_request_message; sendto.
\* struct.error from pack_request_message is caught nowhere: the socket is closed
\* by the "with" block and the thread dies without a report.
UdpSendRequest(i) ==
    LET s == udp[i]
        request_packet == pack_request_message(requested_file_size)
    IN
    /\ s.pc = "request"
    /\ IF ~request_packet.ok
       THEN /\ udp' = [udp EXCEPT ![i].pc = "crashed", ![i].start_time = now,
                                  ![i].report = [NoUdpReport EXCEPT !.kind = "crashed"]]
            /\ UNCHANGED srv_udp_sock
       ELSE /\ udp' = [udp EXCEPT ![i].pc = "recv", ![i].start_time = now]
            /\ srv_udp_sock' =
                 IF s.server_ip = SERVER_IP /\ s.server_udp_port = SERVER_UDP_PORT
                 THEN Append(srv_udp_sock, [data |-> request_packet, addr |-> s.addr])
                 ELSE srv_udp_sock
    /\ UNCHANGED <<cfgVars, bcast, stray_left, lstVars, tcpVars, now, udp_sock, udp_listen, udp_handlers, extra_left>>

\* udp_sock.sendto raises (no route, a port the stack refuses): no try encloses
\* the call, the "with" block closes the socket and the thread dies without a
\* report.
UdpSendFails(i) ==
    LET s == udp[i] IN
    /\ s.pc = "request"
    /\ udp' = [udp EXCEPT ![i].pc = "crashed", ![i].start_time = now,
                          ![i].report = [NoUdpReport EXCEPT !.kind = "crashed"]]
    /\ UNCHANGED <<cfgVars, bcast, stray_left, lstVars, tcpVars, now, udp_sock, srv_udp_sock,
                   udp_listen, udp_handlers, extra_left>>

\* Steps 4 to 6 of the loop for one datagram that recvfrom returned
UdpCountUnchecked(s, data) ==
    LET m == unpack_payload_message(data)
    IN  IF ~m.ok THEN s
        ELSE [s EXCEPT !.latched = TRUE,
                       !.total_segments = IF s.latched THEN @ ELSE m.total_segments,
                       !.received_segments = @ + 1,
                       !.total_received_bytes = @ + m.payload_len]
UdpCountInOrder(s, data) ==
    LET m == unpack_payload_message(data)
    IN  IF ~m.ok THEN s
        ELSE IF m.magic_cookie # MAGIC_COOKIE \/ m.msg_type # MSG_TYPE_PAYLOAD THEN s
        ELSE IF m.current_segment <= s.received_segments THEN [s EXCEPT !.latched = TRUE,
                       !.total_segments = IF s.latched THEN @ ELSE m.total_segments]
        ELSE [s EXCEPT !.latched = TRUE,
                       !.total_segments = IF s.latched THEN @ ELSE m.total_segments,
                       !.received_segments = @ + 1,
                       !.total_received_bytes = @ + m.payload_len]
UdpCount(s, data) ==
    LET m == unpack_payload_message(data)
    IN  IF ~m.ok THEN s
        ELSE IF m.magic_cookie # MAGIC_COOKIE \/ m.msg_type # MSG_TYPE_PAYLOAD THEN s
        ELSE [s EXCEPT !.latched = TRUE,
                       !.total_segments = IF s.latched THEN @ ELSE m.total_segments,
                       !.received_segments = @ + 1,
                       !.total_received_bytes = @ + m.payload_len]

\* data, addr = udp_sock.recvfrom(65535) returns a datagram
UdpRecvUntilComplete(i) ==
    LET s == udp[i] IN
    /\ s.pc = "recv"
    /\ \E d \in BagToSet(udp_sock[s.addr]) :
        LET t == UdpCount(s, d) IN
        /\ udp_sock' = [udp_sock EXCEPT ![s.addr] = @ (-) SetToBag({d})]
        /\ udp' = [udp EXCEPT ![i] =
                     [t EXCEPT !.seen = @ (+) SetToBag({d}),
                               !.pc = IF t.latched /\ t.received_segments >= t.total_segments
                                      THEN "done" ELSE "recv"]]
    /\ UNCHANGED <<cfgVars, bcast, stray_left, lstVars, tcpVars, now, srv_udp_sock, udp_listen,
                   udp_handlers, extra_left>>
UdpRecv(i) ==
    LET s == udp[i] IN
    /\ s.pc = "recv"
    /\ \E d \in BagToSet(udp_sock[s.addr]) :
        /\ udp_sock' = [udp_sock EXCEPT ![s.addr] = @ (-) SetToBag({d})]
        /\ udp' = [udp EXCEPT ![i] = [UdpCount(s, d) EXCEPT !.seen = @ (+) SetToBag({d})]]
    /\ UNCHANGED <<cfgVars, bcast, stray_left, lstVars, tcpVars, now, srv_udp_sock, udp_listen, udp_handlers, extra_left>>

\* socket.timeout after an idle second: break, close the socket, the statistics
UdpTimeout(i) ==
    LET s == udp[i] IN
    /\ s.pc = "recv"
    /\ udp_sock[s.addr] = EmptyBag
    /\ udp' = [udp EXCEPT ![i].pc = IF UdpReport(s).kind = "finished" THEN "done" ELSE "crashed",
                          ![i].report = UdpReport(s)]
    /\ UNCHANGED <<cfgVars, bcast, stray_left, lstVars, tcpVars, now, udp_sock, srv_udp_sock, udp_listen, udp_handlers,
                   extra_left>>

UdpSessionStep(i) == UdpSendRequest(i) \/ UdpRecv(i) \/ UdpTimeout(i)

\* A client socket receives while its session is in the loop.
UdpSocketOpen(a) == \E i \in ConnIds : udp[i].addr = a /\ udp[i].pc = "recv"

\* -------------------------------------------------------- the network
\* A datagram on its way to a client socket is lost ...
NetDrop(a) ==
    /\ \E d \in BagToSet(udp_sock[a]) :
        udp_sock' = [udp_sock EXCEPT ![a] = @ (-) SetToBag({d})]
    /\ UNCHANGED <<cfgVars, bcast, stray_left, lstVars, tcpVars, now, udp, srv_udp_sock, udp_listen, udp_handlers, extra_left>>

\* ... or delivered twice.
NetDuplicate(a) ==
    /\ extra_left > 0
    /\ \E d \in BagToSet(udp_sock[a]) :
        udp_sock' = [udp_sock EXCEPT ![a] = @ (+) SetToBag({d})]
    /\ extra_left' = extra_left - 1
    /\ UNCHANGED <<cfgVars, bcast, stray_left, lstVars, tcpVars, now, udp, srv_udp_sock, udp_listen, udp_handlers>>

\* A Request on its way to the server is lost.
NetDropRequest ==
    /\ srv_udp_sock # <<>>
    /\ srv_udp_sock' = Tail(srv_udp_sock)
    /\ UNCHANGED <<cfgVars, bcast, stray_left, lstVars, tcpVars, now, udp, udp_sock, udp_listen, udp_handlers, extra_left>>

\* What another program may send to a session's socket, which takes datagrams
\* from any address: Payloads that announce 0, 2 and 3 segments, a Payload with
\* another cookie, one with another message type, and a datagram shorter than
\* the Payload header.
StrayDatagrams ==
    { pack_payload_message(0, 1, 1),
      pack_payload_message(2, 1, 1),
      pack_payload_message(3, 2, 2),
      [pack_payload_message(2, 2, 1) EXCEPT !.hdr[1] = 0],
      [pack_payload_message(2, 1, 1) EXCEPT !.hdr[5] = MSG_TYPE_OFFER],
      [ok |-> TRUE, hdr |-> <<1, 2, 3>>, plen |-> 0] }

StrayArrives(a, d) ==
    /\ stray_left > 0
    /\ UdpSocketOpen(a)
    /\ udp_sock' = [udp_sock EXCEPT ![a] = @ (+) SetToBag({d})]
    /\ stray_left' = stray_left - 1
    /\ UNCHANGED <<cfgVars, bcast, lstVars, tcpVars, now, udp, srv_udp_sock, udp_listen,
                   udp_handlers, extra_left>>

\* What another program may send to the server's UDP socket: a Request with
\* another cookie, one with another message type, and a datagram that is too
\* short for a Request.
StrayRequests ==
    { [pack_request_message(1) EXCEPT !.hdr[1] = 0],
      [pack_request_message(1) EXCEPT !.hdr[5] = MSG_TYPE_PAYLOAD],
      pack_offer_message(SERVER_UDP_PORT, SERVER_TCP_PORT) }

StrayRequestArrives(d) ==
    /\ stray_left > 0
    /\ srv_udp_sock' = Append(srv_udp_sock, [data |-> d, addr |-> <<0, 0>>])
    /\ stray_left' = stray_left - 1
    /\ UNCHANGED <<cfgVars, bcast, lstVars, tcpVars, now, udp, udp_sock, udp_listen,
                   udp_handlers, extra_left>>

\* ---------------------------------------------------- server: _udp_listen
\* self.state['udp_socket']: bound in start(), the socket _udp_listen receives
\* on and the one every handler looks up to send on; nothing closes it.
ServerUdpSocket == "udp_socket"
OpenServerUdpSockets == {ServerUdpSocket}

\* sock is the socket the handler has sent on, "none" before its first sendto.
NoUdpHandler ==
    [pc |-> "start", data |-> NoDatagram, addr |-> <<0, 0>>, requested_size |-> 0,
     total_segments |-> 0, seg_index |-> 0, bytes_sent |-> 0, sent |-> <<>>, out |-> "none",
     sock |-> "none"]

\* data, addr = udp_socket.recvfrom(2048); Thread(target=self._handle_udp_client).start()
UdpListenRecv ==
    /\ udp_listen = "recv"
    /\ srv_udp_sock # <<>>
    /\ udp_handlers' = Append(udp_handlers,
                              [NoUdpHandler EXCEPT !.data = Head(srv_udp_sock).data,
                                                   !.addr = Head(srv_udp_sock).addr])
    /\ srv_udp_sock' = Tail(srv_udp_sock)
    /\ udp_listen' = WhileRunning(srv_running, "recv")
    /\ UNCHANGED <<cfgVars, bcast, stray_left, lstVars, tcpVars, now, udp, udp_sock, extra_left>>

\* ------------------------------------------ server: _handle_udp_client
\* total_segments = (requested_size + segment_size - 1) // segment_size
TotalSegmentsRoundedDown(requested_size) == requested_size \div segment_size
TotalSegments(requested_size) == (requested_size + segment_size - 1) \div segment_size

\* to_send = min(segment_size, requested_size - bytes_sent)
SegmentLengthFull(requested_size, sent) == segment_size
SegmentLength(requested_size, sent) == Min(segment_size, requested_size - sent)

\* unpack_request_message, the cookie and type test, total_segments, and the
\* first test of "for seg_index in range(1, total_segments + 1)"
UdpHandlerStart(h) ==
    LET hd == udp_handlers[h]
        m == unpack_request_message(hd.data)
        total == TotalSegments(m.file_size)
    IN
    /\ hd.pc = "start"
    /\ udp_handlers' = [udp_handlers EXCEPT ![h] =
         IF ~m.ok THEN [hd EXCEPT !.pc = "done", !.out = "malformed"]
         ELSE IF m.magic_cookie # MAGIC_COOKIE \/ m.msg_type # MSG_TYPE_REQUEST
         THEN [hd EXCEPT !.pc = "done", !.out = "invalid"]
         ELSE IF 1 > total
         THEN [hd EXCEPT !.pc = "done", !.out = "complete", !.requested_size = m.file_size,
                         !.total_segments = total]
         ELSE [hd EXCEPT !.pc = "send", !.requested_size = m.file_size,
                         !.total_segments = total, !.seg_index = 1]]
    /\ UNCHANGED <<cfgVars, bcast, stray_left, lstVars, tcpVars, now, udp, udp_sock, srv_udp_sock, udp_listen, extra_left>>

\* One pass of the for loop: pack_payload_message, sendto, bytes_sent += to_send
UdpHandlerSend(h) ==
    LET hd == udp_handlers[h]
        to_send == SegmentLength(hd.requested_size, hd.bytes_sent)
        packet == pack_payload_message(hd.total_segments, hd.seg_index, to_send)
        last == hd.seg_index + 1 > hd.total_segments
    IN
    /\ hd.pc = "send"
    /\ udp_handlers' = [udp_handlers EXCEPT ![h] =
         [hd EXCEPT !.bytes_sent = @ + to_send, !.sent = Append(@, packet),
                    !.sock = ServerUdpSocket,
                    !.seg_index = IF last THEN @ ELSE @ + 1,
                    !.pc = IF last THEN "done" ELSE "send",
                    !.out = IF last THEN "complete" ELSE "none"]]
    /\ udp_sock' = IF UdpSocketOpen(hd.addr)
                   THEN [udp_sock EXCEPT ![hd.addr] = @ (+) SetToBag({packet})]
                   ELSE udp_sock
    /\ UNCHANGED <<cfgVars, bcast, stray_left, lstVars, tcpVars, now, udp, srv_udp_sock, udp_listen, extra_left>>

UdpHandlerStep(h) == UdpHandlerStart(h) \/ UdpHandlerSend(h)

\* ------------------------------------------- client: _listen_for_offers
\* pc is "loop" (the while test), "recv" (in recvfrom), "spawn_tcp", "spawn_udp",
\* "join_tcp", "join_udp" (inside _start_speed_test, i being the loop index) or
\* "exited"; test counts the calls of _start_speed_test, completed its returns.
NewListener ==
    [pc |-> "loop", i |-> 0, server_ip |-> SERVER_IP, udp_port |-> 0, tcp_port |-> 0,
     test |-> 0, completed |-> 0]

\* Where _start_speed_test is once it reaches the loop `phase` at index i: loops
\* with nothing left to do are passed over, and after the last join the function
\* logs "All transfers complete" and returns into the listener's loop, whose
\* test comes next.
OrchestratorAt(l, phase, i) ==
    LET at(ph, j) == [l EXCEPT !.pc = ph, !.i = j]
        returned == [l EXCEPT !.pc = WhileRunning(running, "recv"), !.i = 0,
                              !.completed = @ + 1]
        joinUdp(j) == IF j < num_udp_conns THEN at("join_udp", j) ELSE returned
        joinTcp(j) == IF j < num_tcp_conns THEN at("join_tcp", j) ELSE joinUdp(0)
        spawnUdp(j) == IF j < num_udp_conns THEN at("spawn_udp", j) ELSE joinTcp(0)
        spawnTcp(j) == IF j < num_tcp_conns THEN at("spawn_tcp", j) ELSE spawnUdp(0)
    IN  CASE phase = "spawn_tcp" -> spawnTcp(i)
          [] phase = "spawn_udp" -> spawnUdp(i)
          [] phase = "join_tcp" -> joinTcp(i)
          [] phase = "join_udp" -> joinUdp(i)

\* The first test of "while self.running", when the thread starts
ListenLoop ==
    /\ listener.pc = "loop"
    /\ listener' = [listener EXCEPT !.pc = WhileRunning(running, "recv")]
    /\ UNCHANGED <<cfgVars, bcast, stray_left, now, tcpVars, udpVars, running, offer_sock, offers_left>>

\* data, addr = udp_socket.recvfrom(2048); unpack_offer_message; the cookie and
\* type test; on a valid Offer the call of _start_speed_test begins
ListenRecvAnyOffer ==
    /\ listener.pc = "recv"
    /\ offer_sock # <<>>
    /\ LET data == Head(offer_sock).data
           addr == Head(offer_sock).addr
           m == unpack_offer_message(data)
       IN  listener' =
             IF ~m.ok THEN [listener EXCEPT !.pc = WhileRunning(running, "recv")]
             ELSE OrchestratorAt([listener EXCEPT !.server_ip = addr, !.udp_port = m.udp_port,
                                                  !.tcp_port = m.tcp_port, !.test = @ + 1],
                                 "spawn_tcp", 0)
    /\ offer_sock' = Tail(offer_sock)
    /\ UNCHANGED <<cfgVars, bcast, stray_left, now, tcpVars, udpVars, running, offers_left>>
ListenRecv ==
    /\ listener.pc = "recv"
    /\ offer_sock # <<>>
    /\ LET data == Head(offer_sock).data
           addr == Head(offer_sock).addr
           m == unpack_offer_message(data)
       IN  listener' =
             IF ~m.ok THEN [listener EXCEPT !.pc = WhileRunning(running, "recv")]
             ELSE IF m.magic_cookie = MAGIC_COOKIE /\ m.msg_type = MSG_TYPE_OFFER
             THEN OrchestratorAt([listener EXCEPT !.server_ip = addr, !.udp_port = m.udp_port,
                                                  !.tcp_port = m.tcp_port, !.test = @ + 1],
                                 "spawn_tcp", 0)
             ELSE [listener EXCEPT !.pc = WhileRunning(running, "recv")]
    /\ offer_sock' = Tail(offer_sock)
    /\ UNCHANGED <<cfgVars, bcast, stray_left, now, tcpVars, udpVars, running, offers_left>>

\* ------------------------------------------- client: _start_speed_test
\* t = threading.Thread(target=self._tcp_download, ...); tcp_threads.append(t); t.start()
SpawnTcp ==
    /\ listener.pc = "spawn_tcp"
    /\ tcp' = [tcp EXCEPT ![listener.i + 1] =
                 NewTcpSession(listener.server_ip, listener.tcp_port, listener.test,
                               listener.i + 1)]
    /\ listener' = OrchestratorAt(listener, "spawn_tcp", listener.i + 1)
    /\ UNCHANGED <<cfgVars, bcast, stray_left, now, udpVars, running, offer_sock, offers_left,
                   conn, backlog, tcp_listen, srv_running, handler, foreign, peer_left>>

\* t = threading.Thread(target=self._udp_download, ...); udp_threads.append(t); t.start()
SpawnUdp ==
    /\ listener.pc = "spawn_udp"
    /\ udp' = [udp EXCEPT ![listener.i + 1] =
                 NewUdpSession(listener.server_ip, listener.udp_port, listener.test,
                               listener.i + 1)]
    /\ listener' = OrchestratorAt(listener, "spawn_udp", listener.i + 1)
    /\ UNCHANGED <<cfgVars, bcast, stray_left, now, tcpVars, running, offer_sock, offers_left,
                   udp_sock, srv_udp_sock, udp_listen, udp_handlers, extra_left>>

\* A thread is over once its target has returned or raised.
Terminated(pc) == pc \in {"done", "crashed"}

\* t.join() returns once the thread is over
ThreadEndedOrNot(pc) == TRUE
ThreadEnded(pc) == Terminated(pc)

\* tcp_threads and udp_threads are locals of _start_speed_test: when it returns,
\* the Thread objects that have ended are released with them.
Released(l, threads, none) ==
    IF l.pc \in {"spawn_tcp", "spawn_udp", "join_tcp", "join_udp"} THEN threads
    ELSE [i \in ConnIds |-> IF Terminated(threads[i].pc) THEN none ELSE threads[i]]

\* for t in tcp_threads: t.join()
JoinTcp ==
    /\ listener.pc = "join_tcp"
    /\ ThreadEnded(tcp[listener.i + 1].pc)
    /\ listener' = OrchestratorAt(listener, "join_tcp", listener.i + 1)
    /\ tcp' = Released(listener', tcp, NoTcpSession)
    /\ udp' = Released(listener', udp, NoUdpSession)
    /\ UNCHANGED <<cfgVars, bcast, stray_left, now, running, offer_sock, offers_left,
                   conn, backlog, tcp_listen, srv_running, handler, foreign, peer_left,
                   udp_sock, srv_udp_sock, udp_listen, udp_handlers, extra_left>>

\* for t in udp_threads: t.join()
JoinUdp ==
    /\ listener.pc = "join_udp"
    /\ ThreadEnded(udp[listener.i + 1].pc)
    /\ listener' = OrchestratorAt(listener, "join_udp", listener.i + 1)
    /\ tcp' = Released(listener', tcp, NoTcpSession)
    /\ udp' = Released(listener', udp, NoUdpSession)
    /\ UNCHANGED <<cfgVars, bcast, stray_left, now, running, offer_sock, offers_left,
                   conn, backlog, tcp_listen, srv_running, handler, foreign, peer_left,
                   udp_sock, srv_udp_sock, udp_listen, udp_handlers, extra_left>>

\* ------------------------------------------ what reaches the offer socket
\* The server's Offer, a stranger's Offer ...
ServerOffer == [data |-> pack_offer_message(SERVER_UDP_PORT, SERVER_TCP_PORT), addr |-> SERVER_IP]
StrangerOffer ==
    [data |-> pack_offer_message(STRANGER_PORT, STRANGER_PORT), addr |-> STRANGER_IP]
\* ... and an Offer-sized datagram of another message type.
WrongTypeOffer ==
    [data |-> [ServerOffer.data EXCEPT !.hdr[5] = MSG_TYPE_REQUEST], addr |-> STRANGER_IP]

\* An Offer with another cookie, and a datagram that is too short for an Offer.
WrongCookieOffer ==
    [data |-> [ServerOffer.data EXCEPT !.hdr[1] = 0], addr |-> STRANGER_IP]
ShortOffer == [data |-> [ok |-> TRUE, hdr |-> <<1, 2, 3>>, plen |-> 0], addr |-> STRANGER_IP]

\* A datagram reaches the socket bound to the broadcast port.
OfferArrives(o) ==
    /\ offers_left > 0
    /\ offer_sock' = Append(offer_sock, o)
    /\ offers_left' = offers_left - 1
    /\ UNCHANGED <<cfgVars, bcast, stray_left, now, tcpVars, udpVars, running, listener>>

\* ------------------------------------------------------- specifications
TcpFileSizes ==
    {0 - 1, 0, 1, chunk_size - 1, chunk_size, chunk_size + 1, 2 * chunk_size, MaxTcpFileSize}

\* The server has started and its listening threads have reached accept() and
\* recvfrom(); the clock reads 0.
InitCommon ==
    /\ now = 0
    /\ conn = [k \in ConnKeys |-> NoConn]
    /\ backlog = <<>>
    /\ tcp_listen = "accept"
    /\ srv_running = TRUE
    /\ handler = [k \in ConnKeys |-> NoHandler]
    /\ foreign = [j \in 1..MaxForeign |-> <<>>]
    /\ peer_left = MaxPeerSends
    /\ udp_sock = [a \in UdpAddrs |-> EmptyBag]
    /\ srv_udp_sock = <<>>
    /\ udp_listen = "recv"
    /\ udp_handlers = <<>>
    /\ extra_left = MaxExtra
    /\ bcast = NewBroadcaster
    /\ running = TRUE
    /\ offer_sock = <<>>

\* One TCP session, just spawned by the orchestrator against the server's
\* offer or against a stranger's.
InitTcp ==
    /\ InitCommon
    /\ stray_left = MaxStray
    /\ num_tcp_conns = 1
    /\ num_udp_conns = 0
    /\ offers_left = 0
    /\ listener = [NewListener EXCEPT !.pc = "join_tcp", !.test = 1]
    /\ udp = [i \in ConnIds |-> NoUdpSession]
    /\ requested_file_size \in TcpFileSizes
    /\ \E target \in {<<SERVER_IP, SERVER_TCP_PORT>>, <<STRANGER_IP, STRANGER_PORT>>} :
        tcp = [i \in ConnIds |-> IF i = 1 THEN NewTcpSession(target[1], target[2], 1, 1)
                                 ELSE NoTcpSession]

NextTcp ==
    \/ Tick
    \/ ClockSetBack
    \/ TcpSessionStep(1)
    \/ StrangerStep(<<1, 1>>)
    \/ TcpListenAccept
    \/ HandlerRecv(<<1, 1>>)
    \/ HandlerSend(<<1, 1>>)

SpecTcp == InitTcp /\ [][NextTcp]_vars

\* The server's TCP side alone, its clients being other programs.
InitTcpServer ==
    /\ InitCommon
    /\ stray_left = MaxStray
    /\ num_tcp_conns = 1
    /\ num_udp_conns = 0
    /\ offers_left = 0
    /\ listener = NewListener
    /\ udp = [i \in ConnIds |-> NoUdpSession]
    /\ requested_file_size = 0
    /\ tcp = [i \in ConnIds |-> NoTcpSession]

NextTcpServer ==
    \/ TcpListenAccept
    \/ \E j \in 1..MaxForeign : ForeignStep(j) \/ HandlerStep(<<0, j>>)

SpecTcpServer == InitTcpServer /\ [][NextTcpServer]_vars

UdpFileSizes ==
    {0 - 1, 0, 1, segment_size - 1, segment_size, segment_size + 1, 2 * segment_size,
     MaxUdpFileSize}

\* One UDP session, just spawned by the orchestrator against the server's offer.
InitUdp ==
    /\ InitCommon
    /\ stray_left = MaxStray
    /\ num_tcp_conns = 0
    /\ num_udp_conns = 1
    /\ offers_left = 0
    /\ listener = [NewListener EXCEPT !.pc = "join_udp", !.test = 1]
    /\ tcp = [i \in ConnIds |-> NoTcpSession]
    /\ requested_file_size \in UdpFileSizes
    /\ udp = [i \in ConnIds |-> IF i = 1 THEN NewUdpSession(SERVER_IP, SERVER_UDP_PORT, 1, 1)
                                 ELSE NoUdpSession]

NextUdp ==
    \/ UdpSessionStep(1)
    \/ NetDrop(<<1, 1>>)
    \/ NetDuplicate(<<1, 1>>)
    \/ NetDropRequest
    \/ UdpListenRecv
    \/ \E h \in 1..Len(udp_handlers) : UdpHandlerStep(h)

SpecUdp == InitUdp /\ [][NextUdp]_vars

\* One or two UDP sessions, just spawned by the orchestrator against a
\* stranger's offer; whatever reaches their sockets comes from other programs.
InitUdpClient ==
    /\ InitCommon
    /\ stray_left = MaxArrivals
    /\ num_tcp_conns = 0
    /\ num_udp_conns \in 1..2
    /\ offers_left = 0
    /\ listener = [NewListener EXCEPT !.pc = "join_udp", !.test = 1,
                                      !.server_ip = STRANGER_IP,
                                      !.udp_port = STRANGER_PORT, !.tcp_port = STRANGER_PORT]
    /\ tcp = [i \in ConnIds |-> NoTcpSession]
    /\ requested_file_size = segment_size + 1
    /\ udp = [i \in ConnIds |-> IF i <= num_udp_conns
                                 THEN NewUdpSession(STRANGER_IP, STRANGER_PORT, 1, i)
                                 ELSE NoUdpSession]

NextUdpClient ==
    \/ \E i \in 1..2 : UdpSessionStep(i)
    \/ \E i \in 1..2 : \E d \in StrayDatagrams : StrayArrives(<<1, i>>, d)

SpecUdpClient == InitUdpClient /\ [][NextUdpClient]_vars

\* The client listens and the server serves UDP, while datagrams of other
\* programs reach the offer socket and the server's UDP socket; a test is one
\* UDP session.
DiscardOffers == {ServerOffer, WrongTypeOffer, WrongCookieOffer, ShortOffer}

InitDiscard ==
    /\ InitCommon
    /\ stray_left = MaxStray
    /\ num_tcp_conns = 0
    /\ num_udp_conns = 1
    /\ requested_file_size = 1
    /\ offers_left = MaxOffers
    /\ listener = NewListener
    /\ tcp = [i \in ConnIds |-> NoTcpSession]
    /\ udp = [i \in ConnIds |-> NoUdpSession]

NextDiscard ==
    \/ ListenLoop
    \/ ListenRecv
    \/ SpawnUdp
    \/ JoinUdp
    \/ \E o \in DiscardOffers : OfferArrives(o)
    \/ UdpSessionStep(1)
    \/ \E d \in StrayRequests : StrayRequestArrives(d)
    \/ UdpListenRecv
    \/ \E h \in 1..Len(udp_handlers) : UdpHandlerStep(h)

SpecDiscard == InitDiscard /\ [][NextDiscard]_vars

\* The four background loops and the two shutdown flags.  A test starts no
\* session; one more datagram may reach the offer socket and one more the
\* server's UDP socket, and another program may open one TCP connection.  The
\* handler threads the server's loops start are left where they start.
InitLoops ==
    /\ InitCommon
    /\ stray_left = 1
    /\ num_tcp_conns = 0
    /\ num_udp_conns = 0
    /\ requested_file_size = 1
    /\ offers_left = 1
    /\ listener = NewListener
    /\ tcp = [i \in ConnIds |-> NoTcpSession]
    /\ udp = [i \in ConnIds |-> NoUdpSession]

NextLoops ==
    \/ BroadcastSend
    \/ BroadcastSendFails
    \/ BroadcastWake
    \/ ServerInterrupt
    \/ ClientInterrupt
    \/ ListenLoop
    \/ ListenRecv
    \/ \E o \in {ServerOffer, WrongTypeOffer} : OfferArrives(o)
    \/ ForeignConnect(1)
    \/ TcpListenAccept
    \/ \E d \in StrayRequests : StrayRequestArrives(d)
    \/ UdpListenRecv

SpecLoops == InitLoops /\ [][NextLoops]_vars

\* Every thread that can take a step takes one in the end; nothing obliges the
\* network to deliver a datagram or a connection, nor the user to interrupt.
SpecLoopsFair ==
    /\ SpecLoops
    /\ WF_vars(BroadcastSend \/ BroadcastSendFails \/ BroadcastWake)
    /\ WF_vars(ListenLoop \/ ListenRecv)
    /\ WF_vars(TcpListenAccept)
    /\ WF_vars(UdpListenRecv)

\* One speed test under way against a stranger's offer: a TCP session and a UDP
\* session have been started and the orchestrator waits in its first join.  The
\* stranger delivers, closes, resets or stays silent as it likes, and datagrams
\* reach the UDP session's socket while it is open.
FinishFileSizes == {0, 1, chunk_size + 1}
FinishDatagrams ==
    { pack_payload_message(2, 1, 1), [pack_payload_message(2, 2, 1) EXCEPT !.hdr[1] = 0] }

InitFinish ==
    /\ InitCommon
    /\ stray_left = MaxStray
    /\ num_tcp_conns = 1
    /\ num_udp_conns = 1
    /\ offers_left = 0
    /\ requested_file_size \in FinishFileSizes
    /\ listener = [NewListener EXCEPT !.pc = "join_tcp", !.test = 1,
                                      !.server_ip = STRANGER_IP,
                                      !.udp_port = STRANGER_PORT, !.tcp_port = STRANGER_PORT]
    /\ tcp = [i \in ConnIds |-> IF i = 1 THEN NewTcpSession(STRANGER_IP, STRANGER_PORT, 1, 1)
                                 ELSE NoTcpSession]
    /\ udp = [i \in ConnIds |-> IF i = 1 THEN NewUdpSession(STRANGER_IP, STRANGER_PORT, 1, 1)
                                 ELSE NoUdpSession]

NextFinish ==
    \/ TcpSessionStep(1)
    \/ UdpSessionStep(1)
    \/ StrangerStep(<<1, 1>>)
    \/ \E d \in FinishDatagrams : StrayArrives(<<1, 1>>, d)
    \/ JoinTcp
    \/ JoinUdp

SpecFinish == InitFinish /\ [][NextFinish]_vars

\* A UDP session thread can take a step while it is about to send its request
\* or is in its receive loop: there recvfrom returns a datagram or times out.
UdpCanStep(i) == udp[i].pc \in {"request", "recv"}

\* Each of the client's threads that can take a step takes one in the end; the
\* peers are obliged to nothing.  The UDP thread's weak fairness is written
\* out, UdpCanStep(1) being ENABLED <<UdpSessionStep(1)>>_vars.
SpecFinishFair ==
    /\ SpecFinish
    /\ WF_vars(TcpSessionStep(1))
    /\ ([]<>~UdpCanStep(1) \/ []<><<UdpSessionStep(1)>>_vars)
    /\ WF_vars(JoinTcp \/ JoinUdp)

ClientFileSizes == {0 - 1, 1}
ClientOffers == {ServerOffer, StrangerOffer, WrongTypeOffer}

\* The client after _prompt_user and the start of its listener thread, and the
\* server after start().
InitClient ==
    /\ InitCommon
    /\ stray_left = MaxStray
    /\ num_tcp_conns \in 0..MaxConns
    /\ num_udp_conns \in 0..MaxConns
    /\ num_tcp_conns + num_udp_conns <= MaxThreads
    /\ requested_file_size \in ClientFileSizes
    /\ offers_left = MaxOffers
    /\ listener = NewListener
    /\ tcp = [i \in ConnIds |-> NoTcpSession]
    /\ udp = [i \in ConnIds |-> NoUdpSession]

NextClient ==
    \/ ListenLoop
    \/ ListenRecv
    \/ SpawnTcp
    \/ SpawnUdp
    \/ JoinTcp
    \/ JoinUdp
    \/ \E o \in ClientOffers : OfferArrives(o)
    \/ \E i \in ConnIds : TcpSessionStep(i) \/ UdpSessionStep(i)
    \/ \E i \in ConnIds : UdpSendFails(i)
    \/ \E k \in ConnKeys : StrangerClose(k) \/ StrangerReset(k)
    \/ \E k \in ConnKeys : HandlerRecv(k) \/ HandlerSend(k)
    \/ TcpListenAccept
    \/ UdpListenRecv
    \/ \E h \in 1..Len(udp_handlers) : UdpHandlerStep(h)

SpecClient == InitClient /\ [][NextClient]_vars

\* ------------------------------------------------------------ TCP claims

\* C5: in every state of a client TCP session that has entered its read loop,
\* total_received <= requested_file_size, whatever the peer does.
C5_TcpNeverExceedsRequested ==
    \A i \in ConnIds :
        (tcp[i].pc \in {"recv", "done"} /\ requested_file_size >= 0)
            => tcp[i].total_received <= requested_file_size

\* C6 as claimed: a handler whose request line parsed never has bytes_sent above
\* requested_size and, having completed, has sent exactly requested_size bytes.
C6_SendsExactlyRequested ==
    \A k \in ConnKeys :
        LET hd == handler[k] IN
        (hd.pc \in {"send", "done"} /\ ParseRequestLine(hd.data).ok)
            => /\ hd.bytes_sent <= hd.requested_size
               /\ hd.out = "completed" => hd.bytes_sent = hd.requested_size

HandlerRequestLines == {0, 0 - 3, chunk_size, 2 * chunk_size + 1}

\* C6 as amended: the handler sends max(requested_size, 0) bytes in chunks of 1 to
\* 4096 bytes, never more, then closes the accepted socket; it completes unless the
\* client closed its end; a request line that int() rejects gets no byte and a
\* closed connection.
C6_SendsRequestedOrNothing ==
    \A k \in ConnKeys :
        LET hd == handler[k]
            c == conn[k]
            p == ParseRequestLine(hd.data)
        IN
        /\ hd.bytes_sent <= Max(hd.requested_size, 0)
        /\ hd.bytes_sent = SumSeq(hd.chunks)
        /\ c.peer = "server" => c.delivered = hd.bytes_sent
        /\ \A n \in 1..Len(hd.chunks) : hd.chunks[n] \in 1..chunk_size
        /\ \A n \in 1..(Len(hd.chunks) - 1) : hd.chunks[n] = chunk_size
        /\ hd.pc = "done" => c.sclosed
        /\ hd.pc = "send" => ~c.sclosed
        /\ hd.out = "completed" => hd.bytes_sent = Max(hd.requested_size, 0)
        /\ (hd.pc = "done" /\ EndsWithNewline(hd.data) /\ p.ok /\ ~c.cclosed)
              => hd.out = "completed"
        /\ \A n \in HandlerRequestLines :
              (hd.out = "completed" /\ hd.data = FormatRequestLine(n))
                  => hd.bytes_sent = Max(n, 0)
        /\ (EndsWithNewline(hd.data) /\ ~p.ok)
              => hd.pc = "done" /\ hd.out = "error" /\ hd.bytes_sent = 0 /\ c.delivered = 0

\* A handler that sent 2 * 4096 + 1 bytes in three chunks and closed.
C6_Witness ==
    \E k \in ConnKeys :
        /\ handler[k].out = "completed"
        /\ handler[k].chunks = <<chunk_size, chunk_size, 1>>
        /\ conn[k].sclosed

\* C7: a session whose peer closed the stream after delivering k < requested bytes
\* is done with a "finished" report of k bytes and of 8 * k bits over its elapsed time.
C7_PeerClosedEarlyIsFinished ==
    \A i \in ConnIds :
        LET s == tcp[i]
            c == conn[s.key]
        IN
        (/\ s.pc = "done" /\ c.st = "est" /\ c.sclosed /\ ~c.reset
         /\ s.recv_calls > 0 /\ c.delivered < requested_file_size /\ c.s2c = 0)
            => /\ s.report.kind = "finished"
               /\ s.report.bytes = c.delivered
               /\ s.report.bits = 8 * c.delivered
               /\ s.report.elapsed > 0

C7_Witness ==
    \E i \in ConnIds :
        /\ tcp[i].pc = "done" /\ tcp[i].report.kind = "finished"
        /\ conn[tcp[i].key].sclosed
        /\ conn[tcp[i].key].delivered = chunk_size + 1
        /\ tcp[i].report.bytes = chunk_size + 1
        /\ requested_file_size = 2 * chunk_size

\* C8: with requested_file_size = 0 against the server no data byte moves: the
\* handler sends nothing and closes, the client never calls recv, and once
\* connected it reports 0 bytes over a positive elapsed time (no division by zero).
C8_ZeroSizeTcp ==
    requested_file_size = 0 =>
        \A i \in ConnIds :
            LET s == tcp[i]
                c == conn[s.key]
                hd == handler[s.key]
            IN
            s.pc # "none" /\ c.peer = "server" =>
                /\ s.total_received = 0 /\ s.recv_calls = 0
                /\ c.delivered = 0 /\ c.s2c = 0
                /\ hd.bytes_sent = 0 /\ hd.chunks = <<>>
                /\ hd.pc = "done" => hd.out = "completed" /\ c.sclosed
                /\ s.pc = "done" =>
                    /\ s.report.kind = "finished"
                    /\ s.report.bytes = 0 /\ s.report.bits = 0
                    /\ s.report.elapsed > 0
                    /\ c.cclosed

\* Both ends done, the clock not having moved since the session started.
C8_Witness ==
    /\ requested_file_size = 0
    /\ \E i \in ConnIds :
        /\ tcp[i].pc = "done" /\ tcp[i].report.kind = "finished"
        /\ tcp[i].report.elapsed = TcpEpsilon
        /\ handler[tcp[i].key].out = "completed"
        /\ conn[tcp[i].key].sclosed

\* ------------------------------------------------------------ UDP claims
PayloadLengths(sent) == [n \in 1..Len(sent) |-> unpack_payload_message(sent[n]).payload_len]

\* C3: a UDP handler serving file_size >= 0 works with total_segments =
\* ceil(file_size / 1024), emits exactly total_segments Payload packets, and their
\* payload lengths add up to file_size (none at all for file_size = 0).
C3_SegmentsCoverFile ==
    \A h \in 1..Len(udp_handlers) :
        LET hd == udp_handlers[h] IN
        hd.pc # "start" =>
            /\ hd.out \notin {"malformed", "invalid"}
            /\ hd.requested_size = requested_file_size
            /\ hd.total_segments >= 0
            /\ hd.total_segments * segment_size >= requested_file_size
            /\ (hd.total_segments - 1) * segment_size < requested_file_size
            /\ Len(hd.sent) <= hd.total_segments
            /\ hd.pc = "send" => Len(hd.sent) < hd.total_segments
            /\ hd.pc = "done" =>
                /\ Len(hd.sent) = hd.total_segments
                /\ SumSeq(PayloadLengths(hd.sent)) = requested_file_size
                /\ hd.bytes_sent = requested_file_size

C3_Witness ==
    \E h \in 1..Len(udp_handlers) :
        /\ udp_handlers[h].pc = "done"
        /\ Len(udp_handlers[h].sent) = 5
        /\ requested_file_size = 4 * segment_size + 1

\* C4: the n-th packet a handler emits is a Payload with segment_index n and the
\* session's total_segments; every packet but the last carries 1024 payload bytes
\* and the last carries file_size - (total_segments - 1) * 1024, between 1 and 1024.
C4_SegmentsInOrder ==
    \A h \in 1..Len(udp_handlers) :
        LET hd == udp_handlers[h] IN
        \A n \in 1..Len(hd.sent) :
            LET m == unpack_payload_message(hd.sent[n]) IN
            /\ hd.sent[n].ok /\ m.ok
            /\ m.magic_cookie = MAGIC_COOKIE /\ m.msg_type = MSG_TYPE_PAYLOAD
            /\ m.current_segment = n
            /\ m.total_segments = hd.total_segments
            /\ n < hd.total_segments => m.payload_len = segment_size
            /\ n = hd.total_segments =>
                /\ m.payload_len = requested_file_size - (hd.total_segments - 1) * segment_size
                /\ m.payload_len \in 1..segment_size

C4_Witness ==
    \E h \in 1..Len(udp_handlers) :
        /\ udp_handlers[h].pc = "done"
        /\ PayloadLengths(udp_handlers[h].sent) = <<segment_size, 1>>

\* C9: a non-positive requested file size is a zero-length transfer: no UDP thread
\* dies of an unhandled exception, and a finished session reports 0 bytes.
C9_NonPositiveIsZeroLength ==
    requested_file_size <= 0 =>
        \A i \in ConnIds :
            /\ udp[i].pc # "crashed"
            /\ udp[i].pc = "done" =>
                 udp[i].report.kind = "finished" /\ udp[i].report.bytes = 0

\* The valid Payload datagrams among those a session has taken from its socket
IsValidPayload(d) ==
    LET m == unpack_payload_message(d)
    IN  m.ok /\ m.magic_cookie = MAGIC_COOKIE /\ m.msg_type = MSG_TYPE_PAYLOAD

RECURSIVE CountValid(_, _)
CountValid(bag, ds) ==
    IF ds = {} THEN 0
    ELSE LET d == CHOOSE x \in ds : TRUE
         IN  (IF IsValidPayload(d) THEN CopiesIn(d, bag) ELSE 0) + CountValid(bag, ds \ {d})

SegmentsSeen(bag) ==
    {unpack_payload_message(d).current_segment : d \in {x \in BagToSet(bag) : IsValidPayload(x)}}

\* C10: a finished UDP session with expected count E > 0 that counted R valid
\* payload datagrams (every arrival counts) reports the loss 100 * (1 - R / E),
\* unclamped: 40 for segments {1, 3, 5} of 5, negative when R > E.
C10_LossIsUnclamped ==
    \A i \in ConnIds :
        LET s == udp[i]
            r == s.report
            R == CountValid(s.seen, BagToSet(s.seen))
        IN
        (s.pc = "done" /\ r.expected > 0) =>
            /\ r.received = R
            /\ r.loss_den > 0
            /\ r.loss_num * r.expected = 100 * (r.expected - R) * r.loss_den
            /\ R > r.expected => r.loss_num < 0
            /\ (R = 3 /\ r.expected = 5) => r.loss_num = 40 * r.loss_den

C10_Witness ==
    \E i \in ConnIds :
        /\ udp[i].pc = "done"
        /\ SegmentsSeen(udp[i].seen) = {1, 3, 5}
        /\ BagCardinality(udp[i].seen) = 3
        /\ udp[i].report.expected = 5
        /\ udp[i].report.loss_num = 40 * udp[i].report.loss_den

C10_WitnessNegative ==
    \E i \in ConnIds :
        /\ udp[i].pc = "done"
        /\ udp[i].report.received > udp[i].report.expected
        /\ udp[i].report.expected > 0
        /\ udp[i].report.loss_num < 0

\* ------------------------------------------------ the listener and the test
InSpeedTest == listener.pc \in {"spawn_tcp", "spawn_udp", "join_tcp", "join_udp"}
TcpAlive(i) == tcp[i].pc # "none" /\ ~Terminated(tcp[i].pc)
UdpAlive(i) == udp[i].pc # "none" /\ ~Terminated(udp[i].pc)
ValidOfferWaiting ==
    /\ offer_sock # <<>>
    /\ LET m == unpack_offer_message(Head(offer_sock).data)
       IN  m.ok /\ m.magic_cookie = MAGIC_COOKIE /\ m.msg_type = MSG_TYPE_OFFER

\* C1: the offer-receive loop is never blocked by a running speed test: the
\* listener is never waiting in a join of _start_speed_test for a session that
\* is still running while a further valid Offer has arrived on its socket.
C1_ListenerNeverBlocked ==
    ~ /\ ValidOfferWaiting
      /\ \/ listener.pc = "join_tcp" /\ TcpAlive(listener.i + 1)
         \/ listener.pc = "join_udp" /\ UdpAlive(listener.i + 1)

\* The sessions of the test in progress, by the orchestrator's position
TcpSpawned ==
    CASE listener.pc = "spawn_tcp" -> 1..listener.i
      [] listener.pc \in {"spawn_udp", "join_tcp", "join_udp"} -> 1..num_tcp_conns
      [] OTHER -> {}
UdpSpawned ==
    CASE listener.pc = "spawn_udp" -> 1..listener.i
      [] listener.pc \in {"join_tcp", "join_udp"} -> 1..num_udp_conns
      [] OTHER -> {}
TcpJoined ==
    CASE listener.pc = "join_tcp" -> 1..listener.i
      [] listener.pc = "join_udp" -> 1..num_tcp_conns
      [] OTHER -> {}
UdpJoined == IF listener.pc = "join_udp" THEN 1..listener.i ELSE {}

\* C2: for each accepted Offer the orchestrator spawns exactly the TCP sessions
\* with ids 1..num_tcp_conns and the UDP sessions with ids 1..num_udp_conns, all
\* of that test; a session it has joined has ended; and once it has returned
\* (the listener is back in its loop) no session it spawned is still running.
C2_SpawnsAllAndJoinsAll ==
    /\ {i \in ConnIds : tcp[i].pc # "none"} = TcpSpawned
    /\ {i \in ConnIds : udp[i].pc # "none"} = UdpSpawned
    /\ \A i \in TcpSpawned : tcp[i].key = <<listener.test, i>>
    /\ \A i \in UdpSpawned : udp[i].addr = <<listener.test, i>>
    /\ \A i \in TcpJoined : Terminated(tcp[i].pc)
    /\ \A i \in UdpJoined : Terminated(udp[i].pc)
    /\ ~InSpeedTest => \A i \in ConnIds : ~TcpAlive(i) /\ ~UdpAlive(i)
    /\ listener.completed = IF InSpeedTest THEN listener.test - 1 ELSE listener.test

\* The orchestrator is about to return from a test of two TCP sessions and one
\* UDP session: it waits in its last join and the last session has just ended.
C2_Witness ==
    /\ num_tcp_conns = 2
    /\ num_udp_conns = 1
    /\ listener.pc = "join_udp"
    /\ listener.i + 1 = num_udp_conns
    /\ \A i \in 1..2 : tcp[i].pc = "done"
    /\ udp[1].pc = "done"
    /\ udp[1].report.kind = "finished"

\* ------------------------------------------- the UDP session's counting
\* The datagram recvfrom returned in a step of session i, if the step is one
ReceivedIn(i, d) ==
    /\ udp[i].pc = "recv"
    /\ udp'[i].seen = udp[i].seen (+) SetToBag({d})
NoValidPayloadIn(bag) == \A d \in BagToSet(bag) : ~IsValidPayload(d)

\* C11: the expected count of a UDP session is the total_segments value of the
\* first valid Payload it received: that value is latched, no later packet
\* changes it, and the final loss is computed with it as the denominator.
C11_FirstTotalIsExpected ==
    /\ [][\A i \in ConnIds : \A d \in StrayDatagrams :
            ReceivedIn(i, d) =>
                /\ udp[i].latched =>
                     udp'[i].latched /\ udp'[i].total_segments = udp[i].total_segments
                /\ (~udp[i].latched /\ IsValidPayload(d)) =>
                     /\ NoValidPayloadIn(udp[i].seen)
                     /\ udp'[i].latched
                     /\ udp'[i].total_segments = unpack_payload_message(d).total_segments]_vars
    /\ [](\A i \in ConnIds :
            (udp[i].pc = "done" /\ udp[i].latched) =>
                /\ udp[i].report.expected = udp[i].total_segments
                /\ udp[i].report.loss_den = udp[i].total_segments)

C13_OnlyTimeoutEndsLoop ==
    /\ [][\A i \in ConnIds :
            (udp[i].pc = "recv" /\ udp'[i].pc # "recv") =>
                /\ udp_sock[udp[i].addr] = EmptyBag
                /\ udp'[i].seen = udp[i].seen
                /\ udp'[i].pc = "done"
                /\ udp'[i].report.kind = "finished"
                /\ udp'[i].report.received = udp[i].received_segments
                /\ udp'[i].report.bytes = udp[i].total_received_bytes]_vars
    /\ [][\A i \in ConnIds : \A d \in StrayDatagrams :
            ReceivedIn(i, d) => udp'[i].pc = "recv"]_vars

\* A session is still receiving after a malformed datagram and after as many
\* valid Payloads as the first of them announced.
C13_Witness ==
    \E i \in ConnIds :
        /\ udp[i].pc = "recv"
        /\ udp[i].latched
        /\ udp[i].total_segments = 2
        /\ udp[i].received_segments = 2
        /\ BagCardinality(udp[i].seen) = 3

\* ------------------------------------------------ datagrams that are dropped
IsValidRequest(d) ==
    LET m == unpack_request_message(d)
    IN  m.ok /\ m.magic_cookie = MAGIC_COOKIE /\ m.msg_type = MSG_TYPE_REQUEST
ListenerTakes == listener.pc = "recv" /\ offer_sock # <<>> /\ offer_sock' = Tail(offer_sock)
UdpListenTakes ==
    /\ udp_listen = "recv"
    /\ srv_udp_sock # <<>>
    /\ Len(udp_handlers') = Len(udp_handlers) + 1

\* C14: a datagram that does not decode, or has another cookie or message type,
\* is dropped and the loop that received it goes on receiving: the client's
\* listener starts no speed test for it, and on the server's UDP path no Payload
\* is sent for it.
C14_BadDatagramsAreDropped ==
    /\ [][(ListenerTakes /\ ~ValidOfferWaiting) =>
            /\ listener' = listener
            /\ listener'.pc = "recv"
            /\ tcp' = tcp
            /\ udp' = udp]_vars
    /\ [][UdpListenTakes => udp_listen' = "recv"]_vars
    /\ [](\A h \in 1..Len(udp_handlers) :
            ~IsValidRequest(udp_handlers[h].data) =>
                /\ udp_handlers[h].pc \in {"start", "done"}
                /\ udp_handlers[h].sent = <<>>
                /\ udp_handlers[h].bytes_sent = 0)
    /\ [](\A a \in UdpAddrs : \A d \in BagToSet(udp_sock[a]) :
            \E h \in 1..Len(udp_handlers) :
                /\ IsValidRequest(udp_handlers[h].data)
                /\ udp_handlers[h].addr = a
                /\ \E n \in 1..Len(udp_handlers[h].sent) : udp_handlers[h].sent[n] = d)

\* Two datagrams have reached the listener, which started one test and is
\* receiving again; the server ended two handlers without sending and served
\* the test's Request.
C14_Witness ==
    /\ offers_left = 0
    /\ offer_sock = <<>>
    /\ listener.pc = "recv"
    /\ listener.test = 1
    /\ listener.completed = 1
    /\ udp_listen = "recv"
    /\ \E h \in 1..Len(udp_handlers) : udp_handlers[h].out = "malformed"
    /\ \E h \in 1..Len(udp_handlers) : udp_handlers[h].out = "invalid"
    /\ \E h \in 1..Len(udp_handlers) :
        udp_handlers[h].out = "complete" /\ Len(udp_handlers[h].sent) = 1

\* C15: a datagram a UDP session receives changes its counters only if it
\* decodes as a Payload with the right cookie and type: then received_segments
\* grows by 1 and total_received_bytes by the payload's length; any other
\* datagram leaves both and the latched expected count as they were.
C15_OnlyValidPayloadsCount ==
    [][\A i \in ConnIds : \A d \in StrayDatagrams :
        ReceivedIn(i, d) =>
            IF IsValidPayload(d)
            THEN /\ udp'[i].received_segments = udp[i].received_segments + 1
                 /\ udp'[i].total_received_bytes =
                      udp[i].total_received_bytes + (DataLen(d) - PAYLOAD_HEADER_SIZE)
            ELSE /\ udp'[i].received_segments = udp[i].received_segments
                 /\ udp'[i].total_received_bytes = udp[i].total_received_bytes
                 /\ udp'[i].latched = udp[i].latched
                 /\ udp'[i].total_segments = udp[i].total_segments]_vars

\* A session has received the valid Payload of two bytes and two datagrams that
\* are no valid Payload.
C15_Witness ==
    \E i \in ConnIds :
        /\ udp[i].pc = "recv"
        /\ BagCardinality(udp[i].seen) = 3
        /\ udp[i].received_segments = 1
        /\ udp[i].total_received_bytes = 2
        /\ udp[i].latched
        /\ udp[i].total_segments = 3

\* ------------------------------------------------------ the background loops
\* C16: the broadcaster makes one send attempt per interval: a failed attempt
\* does not end the loop, and an interval's sleep separates any two consecutive
\* attempts, also when the first of them failed.
C16_OneAttemptPerInterval ==
    /\ bcast.since_sleep <= 1
    /\ (bcast.last = "failed" /\ srv_running) => bcast.pc # "exited"

\* C17: once a shutdown flag is set, every background loop that reads it exits
\* in the end, whether or not a datagram or a connection arrives afterwards.
C17_LoopsExitAfterShutdown ==
    /\ ~srv_running ~> (bcast.pc = "exited" /\ tcp_listen = "exited" /\ udp_listen = "exited")
    /\ ~running ~> listener.pc = "exited"

\* ------------------------------------------------- failures and siblings
\* A session has failed once it has logged an error or died of an exception.
TcpFailed(s) == s.report.kind = "error"
UdpFailed(s) == s.pc = "crashed"

\* C18: a session's failure is its own.  The step in which a session fails
\* changes no other session, nor the listener, the orchestrator's position or
\* the broadcaster; every session that has ended has a report under its
\* connection id, the failed ones included; and a TCP session that finished
\* reports the number of bytes its peer sent it.
C18_FailuresAreIsolated ==
    /\ [][\A i \in ConnIds :
            /\ (TcpFailed(tcp'[i]) /\ ~TcpFailed(tcp[i]))
                 => /\ \A j \in ConnIds \ {i} : tcp'[j] = tcp[j]
                    /\ udp' = udp /\ listener' = listener /\ running' = running
                    /\ bcast' = bcast
            /\ (UdpFailed(udp'[i]) /\ ~UdpFailed(udp[i]))
                 => /\ \A j \in ConnIds \ {i} : udp'[j] = udp[j]
                    /\ tcp' = tcp /\ listener' = listener /\ running' = running
                    /\ bcast' = bcast]_vars
    /\ [](\A i \in ConnIds :
            /\ Terminated(tcp[i].pc) => tcp[i].report.kind \in {"finished", "error"}
            /\ Terminated(udp[i].pc) => udp[i].report.kind \in {"finished", "error"}
            /\ (Terminated(tcp[i].pc) /\ tcp[i].report.kind = "finished")
                 => tcp[i].report.bytes = conn[tcp[i].key].delivered)

\* ------------------------------------------------------------- the sockets
\* C19: every socket of a transfer session belongs to that session alone and is
\* closed once the session is over: no two client sessions hold the same
\* connection or the same UDP socket, no two of the server's UDP handlers have
\* sent on the same socket nor on the socket the listen loop receives on, and a
\* session that has ended, in whatever way, has closed its socket.
C19_SocketsAreExclusive ==
    /\ \A i, j \in ConnIds :
        (i # j /\ tcp[i].pc \notin {"none", "connect"} /\ tcp[j].pc \notin {"none", "connect"})
            => tcp[i].key # tcp[j].key
    /\ \A i, j \in ConnIds :
        (i # j /\ udp[i].pc # "none" /\ udp[j].pc # "none") => udp[i].addr # udp[j].addr
    /\ \A i \in ConnIds :
        /\ (Terminated(tcp[i].pc) /\ conn[tcp[i].key].st # "none") => conn[tcp[i].key].cclosed
        /\ Terminated(udp[i].pc) => ~UdpSocketOpen(udp[i].addr)
    /\ \A k \in ConnKeys : handler[k].pc = "done" => conn[k].sclosed
    /\ \A h \in 1..Len(udp_handlers) :
        LET hd == udp_handlers[h] IN
        hd.sock # "none" =>
            /\ \A g \in 1..Len(udp_handlers) : g # h => udp_handlers[g].sock # hd.sock
            /\ hd.sock # ServerUdpSocket
            /\ hd.pc = "done" => hd.sock \notin OpenServerUdpSockets

\* ------------------------------------------------- the order of arrival
\* Two sessions that have ended after taking the same datagrams, each as often
\* as the other, in whatever order each of them took its own.
SameDatagrams(i, j) ==
    /\ i # j
    /\ udp[i].pc = "done" /\ udp[j].pc = "done"
    /\ udp[i].seen = udp[j].seen

\* The valid Payloads of a bag all carry the same total_segments.
OneTotal(bag) ==
    \A d, e \in {x \in BagToSet(bag) : IsValidPayload(x)} :
        unpack_payload_message(d).total_segments = unpack_payload_message(e).total_segments

\* C20 as claimed: two sessions that took the same datagrams in any two orders
\* report the same received_segments, the same total_received_bytes, the same
\* expected count and the same loss.
C20_StatsAreOrderIndependent ==
    \A i, j \in ConnIds :
        SameDatagrams(i, j)
            => /\ udp[i].report.received = udp[j].report.received
               /\ udp[i].report.bytes = udp[j].report.bytes
               /\ udp[i].report.expected = udp[j].report.expected
               /\ udp[i].report.loss_num = udp[j].report.loss_num
               /\ udp[i].report.loss_den = udp[j].report.loss_den

\* C20: two sessions that took the same datagrams in any two orders report the
\* same received_segments and the same total_received_bytes; they report the
\* same expected count and the same loss when the valid Payloads among the
\* datagrams all carry the same total_segments.
C20_CountsAreOrderIndependent ==
    \A i, j \in ConnIds :
        SameDatagrams(i, j)
            => /\ udp[i].report.received = udp[j].report.received
               /\ udp[i].report.bytes = udp[j].report.bytes
               /\ OneTotal(udp[i].seen)
                    => /\ udp[i].report.expected = udp[j].report.expected
                       /\ udp[i].report.loss_num = udp[j].report.loss_num
                       /\ udp[i].report.loss_den = udp[j].report.loss_den

\* Two sessions have each taken segment 1 of 2 and segment 2 of 3, one in this
\* order and the other in the reverse order, and have both ended.
C20_Witness ==
    /\ SameDatagrams(1, 2)
    /\ udp[1].seen = SetToBag({pack_payload_message(2, 1, 1), pack_payload_message(3, 2, 2)})
    /\ udp[1].total_segments = 2
    /\ udp[2].total_segments = 3
    /\ udp[1].report.received = 2
    /\ udp[1].report.bytes = 3

\* ------------------------------------------------ the server's dispatch
\* A transfer the server has started and not ended.
TcpInProgress(k) == handler[k].pc \in {"read", "send"}
UdpInProgress(h) == udp_handlers[h].pc \in {"start", "send"}

\* C21: the server's dispatch loops never wait for a transfer.  While the
\* server runs, the accept loop is at accept and the UDP loop at recvfrom
\* whatever the handlers are doing, and a connection in the backlog or a
\* datagram on the UDP socket can be taken at once, however many earlier
\* transfers are still in progress.
C21_DispatchNeverWaits ==
    /\ srv_running => (tcp_listen = "accept" /\ udp_listen = "recv")
    /\ (tcp_listen = "accept" /\ backlog # <<>>) => ENABLED TcpListenAccept
    /\ (udp_listen = "recv" /\ srv_udp_sock # <<>>) => ENABLED UdpListenRecv

\* A TCP transfer and a UDP transfer are in progress, both loops are back at
\* their blocking call and a second connection waits in the backlog.
C21_Witness ==
    /\ TcpInProgress(<<1, 1>>) /\ handler[<<1, 1>>].pc = "send"
    /\ Len(udp_handlers) = 1 /\ UdpInProgress(1)
    /\ backlog = << <<1, 2>> >>
    /\ tcp_listen = "accept"
    /\ udp_listen = "recv"

\* ------------------------------------------------ the end of a speed test
\* _start_speed_test has returned and the listener is back in its loop.
TestOver == ~InSpeedTest /\ listener.completed = listener.test

\* The TCP peer has closed or reset the connection, or has delivered all that
\* the session still waits for.
TcpPeerSettled(i) ==
    LET c == conn[<<listener.test, i>>]
    IN  \/ c.sclosed
        \/ (c.st # "none" /\ c.delivered >= requested_file_size)

\* No further datagram will reach a UDP socket.
ArrivalsOver == stray_left = 0

\* C22 as claimed: whatever the peers do, the speed test under way finishes and
\* the client is back to listening.
C22_EveryTestFinishes == <>TestOver

\* C22: once the TCP peer of every session has closed, reset or delivered what
\* was asked for, and the datagrams to the UDP sockets have stopped, the speed
\* test under way finishes and the client is back to listening.
C22_TestFinishesOncePeersSettle ==
    ((\A i \in 1..num_tcp_conns : TcpPeerSettled(i)) /\ ArrivalsOver) ~> TestOver

\* The test is over after the stranger closed the TCP connection short of the
\* request and three datagrams reached the UDP session.
C22_Witness ==
    /\ TestOver
    /\ ArrivalsOver
    /\ requested_file_size = chunk_size + 1
    /\ conn[<<1, 1>>].sclosed /\ ~conn[<<1, 1>>].reset
    /\ conn[<<1, 1>>].delivered = 1
    /\ conn[<<1, 1>>].s2c = 0

============================================================================
